---- MODULE Spec2Model ----
(***************************************************************************)
(* Model of broker_throughput.py: the rolling TimeHistogram, driven by the *)
(* wall clock, the ThroughputCounter that pairs bursts with acks and its   *)
(* readers, the line reader, and the event loop of __main__ that drains    *)
(* stdin and prints on every tick.                                         *)
(*                                                                         *)
(* Time is fixed-point: the clock `now` counts units of 1/Res second.      *)
(* ticklen, totalticktime and the k of sum/mean are whole seconds, as in   *)
(* the source; last_tick, start_time, timestamps and latencies are clock   *)
(* readings, in units.                                                     *)
(***************************************************************************)
EXTENDS Integers, Sequences, FiniteSets, TLC

\* ---- bounds of the model ----
Res == 2                \* clock units per second
MaxTime == 10           \* the clock stops advancing here (units)
MaxNBins == 3           \* nbins of the single histogram is in 1..MaxNBins
MaxSecondsPerBin == 2   \* seconds_per_bin is in 1..MaxSecondsPerBin
MaxN == 2               \* add(n) with n in 1..MaxN
MaxAdds == 2            \* number of add calls on the single histogram
MaxK == 4               \* sum(k), mean(k) with k in 0..MaxK
CounterNBins == 2       \* bins of each window of the ThroughputCounter (600 in the source)
MaxTimeC == 3           \* the clock stops here in the ThroughputCounter specification (units)
MaxSkew == 1            \* units the clock may advance while ThroughputCounter.__init__ runs
MaxDrift == 1           \* units the clock may advance between two time() readings of one handler
MaxPoints == 2          \* a numeric points field is the decimal string of 1..MaxPoints
MaxBursts == 2          \* number of bursts process_burst records
MaxHorizon == 3         \* the readers are asked for horizons of 1..MaxHorizon seconds
MaxTimeG == 5           \* the clock stops here in the specification with the clock set back (units)
MaxLines == 5           \* number of lines read from stdin
MaxTimeR == 4           \* the clock stops here in the specification with the readers (units)

VARIABLES
    now,        \* time(): the wall clock, in units
    h,          \* a TimeHistogram exercised through its own methods
    added,      \* ghost: tick interval of h (counted from start_time) -> total of the n added in it
    nadds,      \* ghost: number of add calls made on h
    idle,       \* ghost: units the clock advanced since the last call on h
    last,       \* ghost: the most recent call and what it returned; cleared when the clock advances
    counter,    \* the ThroughputCounter: its five windows and outstanding_bursts
    g,          \* ghost: bursts recorded and not acked, key reuse, acks matched, lines read,
                \*        records dispatched since the last header, handlers run since the last wake-up
    reader_state,   \* ThroughputCounter._reader_state: the record process_line is reading
    event_loop,     \* the TimeAware of __main__, where run_forever stands, the tnow it read
    io              \* stdin (open or closed by its writer) and ThroughputPrinter.lines_printed

vars == <<now, h, added, nadds, idle, last, counter, g, reader_state, event_loop, io>>

Max(a, b) == IF a >= b THEN a ELSE b
Min(a, b) == IF a <= b THEN a ELSE b

RECURSIVE SumSeq(_)
SumSeq(s) == IF s = <<>> THEN 0 ELSE Head(s) + SumSeq(Tail(s))

\* python: seq[i:] and seq[:j] for 0 <= i, j (0-based, clamped to the length)
SliceFrom(s, i) == SubSeq(s, Min(i, Len(s)) + 1, Len(s))
SliceTo(s, j) == SubSeq(s, 1, Min(j, Len(s)))
\* python: seq[-b:] for b >= 0; -0 is 0, so seq[-0:] is the whole list, and a
\* start before the beginning is clamped to the beginning
SliceLast(s, b) == IF b = 0 THEN s ELSE SliceFrom(s, Max(Len(s) - b, 0))

\* ---- TimeAware / TimeHistogram ----

\* TimeHistogram.__init__ (with TimeAware.__init__) at clock reading t
TimeHistogram(nbins, seconds_per_bin, t) ==
    [ last_tick |-> t, start_time |-> t, ticklen |-> seconds_per_bin,
      n_ticks |-> 0, totalticktime |-> 0,
      nbins |-> nbins, bins_ |-> [i \in 1..nbins |-> 0], current_bin |-> 0 ]

\* the bug of rotating to the next bin without zeroing it
on_tick_change_keep(w) ==
    [w EXCEPT !.current_bin = (w.current_bin + 1) % w.nbins]

\* TimeHistogram.on_tick_change; bins_[i + 1] is the source's _bins[i]
on_tick_change(w) ==
    LET cb == (w.current_bin + 1) % w.nbins
    IN  [w EXCEPT !.current_bin = cb, !.bins_[cb + 1] = 0]

\* one iteration of the while loop of check_for_tick_changed
tick_step(w) ==
    on_tick_change([w EXCEPT !.n_ticks = @ + 1,
                             !.totalticktime = @ + w.ticklen,
                             !.last_tick = @ + w.ticklen * Res])

RECURSIVE tick_loop(_, _)
tick_loop(w, tnow) ==
    IF tnow - w.last_tick >= w.ticklen * Res
    THEN tick_loop(tick_step(w), tnow)
    ELSE w

\* the bug of stepping once however long the gap was
tick_once(w, tnow) ==
    IF tnow - w.last_tick >= w.ticklen * Res THEN tick_step(w) ELSE w

\* the bug of ticking on a clock set back: a tick is taken whenever the clock is a tick or more away from
\* last_tick, in either direction
tick_once_abs(w, tnow) ==
    IF tnow - w.last_tick >= w.ticklen * Res \/ w.last_tick - tnow >= w.ticklen * Res
    THEN tick_step(w) ELSE tick_loop(w, tnow)

\* TimeAware.check_for_tick_changed with tnow = time()
check_for_tick_changed(w, tnow) == tick_loop(w, tnow)

\* the bug of assigning n to the current bin instead of adding it
add_assign(w, n, tnow) ==
    LET w1 == check_for_tick_changed(w, tnow)
    IN  [w1 EXCEPT !.bins_[w1.current_bin + 1] = n]

\* TimeHistogram.add: the window after add(n) at clock reading tnow
add(w, n, tnow) ==
    LET w1 == check_for_tick_changed(w, tnow)
    IN  [w1 EXCEPT !.bins_[w1.current_bin + 1] = @ + n]

\* TimeHistogram.bins (property): <<window after the call, bins oldest to newest>>
bins(w, tnow) ==
    LET w1 == check_for_tick_changed(w, tnow)
    IN  << w1, SliceFrom(w1.bins_, w1.current_bin + 1) \o SliceTo(w1.bins_, w1.current_bin + 1) >>

\* TimeHistogram.sum: <<window after the call, value returned>>
sum(w, k, tnow) ==
    LET bins_to_check == k \div w.ticklen
        r == bins(w, tnow)
    IN  << r[1], SumSeq(SliceLast(r[2], bins_to_check)) >>

\* TimeHistogram.mean: <<window after the call, numerator, denominator>> of the
\* float returned; denominator 0 stands for the literal 0 of the else branch,
\* in which self.sum is not called
mean(w, k, tnow) ==
    LET k1 == IF w.totalticktime < k THEN w.totalticktime ELSE k
        bins_to_check == k1 \div w.ticklen
        r == sum(w, k1, tnow)
    IN  IF bins_to_check # 0 THEN << r[1], r[2], bins_to_check >> ELSE << w, 0, 0 >>

\* ---- ThroughputCounter ----

\* bins of every window: TimeHistogram(600), scaled to the model
nbins600 == CounterNBins

\* ThroughputCounter.__init__: t[i] is the clock reading when the i-th window is built
ThroughputCounter(t) ==
    [ point_hist |-> TimeHistogram(nbins600, 1, t[1]),
      burst_hist |-> TimeHistogram(nbins600, 1, t[2]),
      acked_burst_hist |-> TimeHistogram(nbins600, 1, t[3]),
      latency_hist |-> TimeHistogram(nbins600, 1, t[4]),
      ack_hist |-> TimeHistogram(nbins600, 1, t[5]),
      outstanding_bursts |-> [x \in {} |-> 0] ]

\* python: dict without key k (dict.pop)
Without(d, k) == [x \in DOMAIN d \ {k} |-> d[x]]
\* python: dict with d[k] = v
With(d, k, v) == [x \in DOMAIN d \cup {k} |-> IF x = k THEN v ELSE d[x]]

RECURSIVE SumPoints(_, _)
\* sum(points for timestamp, points in d.itervalues()) over the keys ks of d
SumPoints(d, ks) ==
    IF ks = {} THEN 0
    ELSE LET k == CHOOSE x \in ks : TRUE
         IN  d[k].points + SumPoints(d, ks \ {k})

\* ThroughputCounter.get_total_outstanding_points
get_total_outstanding_points(c) ==
    SumPoints(c.outstanding_bursts, DOMAIN c.outstanding_bursts)

\* python: int(s) succeeds on a decimal string
IsNumeric(s) == \E n \in 0..MaxPoints : ToString(n) = s
\* python: int(s) for a decimal string s
int(s) == CHOOSE n \in 0..MaxPoints : ToString(n) = s

\* all(k in data for k in fields)
HasAll(data, fields) == fields \subseteq DOMAIN data

\* the bug of not checking the fields before using them
process_burst_unchecked(c, data, t) ==
    IF ~HasAll(data, {"identity", "message id", "points"})
    THEN [counter |-> c, raised |-> "KeyError"]
    ELSE IF ~IsNumeric(data["points"])
    THEN [counter |-> c, raised |-> "ValueError"]
    ELSE LET msgtag == data["identity"] \o data["message id"]
             points == int(data["points"])
         IN  [counter |-> [c EXCEPT
                  !.outstanding_bursts = With(@, msgtag, [timestamp |-> t[1], points |-> points]),
                  !.burst_hist = add(@, 1, t[2]),
                  !.point_hist = add(@, points, t[3])],
              raised |-> "none"]

\* ThroughputCounter.process_burst; t[1], t[2], t[3] are the successive clock
\* readings (line 119, burst_hist.add, point_hist.add)
\* the bug of keeping the first entry of a key that is still outstanding
process_burst_keepfirst(c, data, t) ==
    IF ~HasAll(data, {"identity", "message id", "points"})
    THEN [counter |-> c, raised |-> "none"]
    ELSE IF ~IsNumeric(data["points"])
    THEN [counter |-> c, raised |-> "ValueError"]
    ELSE LET msgtag == data["identity"] \o data["message id"]
             points == int(data["points"])
         IN  [counter |-> [c EXCEPT
                  !.outstanding_bursts =
                      IF msgtag \in DOMAIN @ THEN @
                      ELSE With(@, msgtag, [timestamp |-> t[1], points |-> points]),
                  !.burst_hist = add(@, 1, t[2]),
                  !.point_hist = add(@, points, t[3])],
              raised |-> "none"]

process_burst(c, data, t) ==
    IF ~HasAll(data, {"identity", "message id", "points"})
    THEN [counter |-> c, raised |-> "none"]
    ELSE IF ~IsNumeric(data["points"])
    THEN [counter |-> c, raised |-> "ValueError"]
    ELSE LET msgtag == data["identity"] \o data["message id"]
             points == int(data["points"])
         IN  [counter |-> [c EXCEPT
                  !.outstanding_bursts = With(@, msgtag, [timestamp |-> t[1], points |-> points]),
                  !.burst_hist = add(@, 1, t[2]),
                  !.point_hist = add(@, points, t[3])],
              raised |-> "none"]

\* the three adds of process_ack for the popped entry e
ack_adds(c, msgtag, e, t) ==
    LET latency == t[1] - e.timestamp
    IN  [c EXCEPT
            !.outstanding_bursts = Without(@, msgtag),
            !.ack_hist = add(@, e.points, t[2]),
            !.acked_burst_hist = add(@, 1, t[3]),
            !.latency_hist = add(@, latency, t[4])]

\* the bug of counting an ack whose burst was never seen
process_ack_unmatched(c, data, t) ==
    IF ~HasAll(data, {"identity", "message id"})
    THEN [counter |-> c, raised |-> "none"]
    ELSE LET msgtag == data["identity"] \o data["message id"]
         IN  IF msgtag \notin DOMAIN c.outstanding_bursts
             THEN [counter |-> ack_adds(c, msgtag, [timestamp |-> t[1], points |-> 0], t),
                   raised |-> "none"]
             ELSE [counter |-> ack_adds(c, msgtag, c.outstanding_bursts[msgtag], t),
                   raised |-> "none"]

\* the bug of leaving the acked entry in the table
process_ack_nopop(c, data, t) ==
    IF ~HasAll(data, {"identity", "message id"})
    THEN [counter |-> c, raised |-> "none"]
    ELSE LET msgtag == data["identity"] \o data["message id"]
         IN  IF msgtag \notin DOMAIN c.outstanding_bursts
             THEN [counter |-> c, raised |-> "none"]
             ELSE [counter |-> [ack_adds(c, msgtag, c.outstanding_bursts[msgtag], t)
                                   EXCEPT !.outstanding_bursts = c.outstanding_bursts],
                   raised |-> "none"]

\* the bug of weighting the ack by 1 instead of the burst's points
process_ack_unweighted(c, data, t) ==
    IF ~HasAll(data, {"identity", "message id"})
    THEN [counter |-> c, raised |-> "none"]
    ELSE LET msgtag == data["identity"] \o data["message id"]
         IN  IF msgtag \notin DOMAIN c.outstanding_bursts
             THEN [counter |-> c, raised |-> "none"]
             ELSE [counter |-> ack_adds(c, msgtag,
                                   [c.outstanding_bursts[msgtag] EXCEPT !.points = 1], t),
                   raised |-> "none"]

\* ThroughputCounter.process_ack; t[1] .. t[4] are the successive clock readings
\* (line 135, ack_hist.add, acked_burst_hist.add, latency_hist.add)
process_ack(c, data, t) ==
    IF ~HasAll(data, {"identity", "message id"})
    THEN [counter |-> c, raised |-> "none"]
    ELSE LET msgtag == data["identity"] \o data["message id"]
         IN  IF msgtag \notin DOMAIN c.outstanding_bursts
             THEN [counter |-> c, raised |-> "none"]
             ELSE [counter |-> ack_adds(c, msgtag, c.outstanding_bursts[msgtag], t),
                   raised |-> "none"]

RECURSIVE map_sum(_, _, _)
\* map(w.sum, ks): sum is called for each k of the list in turn on the same
\* window; returns <<window afterwards, list of sums>>
map_sum(w, ks, tnow) ==
    IF ks = <<>> THEN <<w, <<>>>>
    ELSE LET r == sum(w, Head(ks), tnow)
             rest == map_sum(r[1], Tail(ks), tnow)
         IN  <<rest[1], <<r[2]>> \o rest[2]>>

RECURSIVE map_mean(_, _, _)
\* map(w.mean, ks); returns <<window afterwards, list of <<num, den>>>>
map_mean(w, ks, tnow) ==
    IF ks = <<>> THEN <<w, <<>>>>
    ELSE LET r == mean(w, Head(ks), tnow)
             rest == map_mean(r[1], Tail(ks), tnow)
         IN  <<rest[1], << <<r[2], r[3]>> >> \o rest[2]>>

\* t = <<clock reading of the first map, of the second map>>
get_outstanding(c, last_n_seconds, t) ==
    LET total_burst_counts == map_sum(c.point_hist, last_n_seconds, t[1])
        total_ack_counts == map_sum(c.ack_hist, last_n_seconds, t[2])
    IN  [counter |-> [c EXCEPT !.point_hist = total_burst_counts[1],
                               !.ack_hist = total_ack_counts[1]],
         value |-> [i \in 1..Len(last_n_seconds) |->
                       total_burst_counts[2][i] - total_ack_counts[2][i]]]

get_points_per_seconds(c, over_seconds, tnow) ==
    LET r == map_mean(c.point_hist, over_seconds, tnow)
    IN  [counter |-> [c EXCEPT !.point_hist = r[1]], value |-> r[2]]

get_total_bursts(c, over_seconds, tnow) ==
    LET r == map_mean(c.burst_hist, over_seconds, tnow)
    IN  [counter |-> [c EXCEPT !.burst_hist = r[1]], value |-> r[2]]

get_acks_per_second(c, over_seconds, tnow) ==
    LET r == map_mean(c.ack_hist, over_seconds, tnow)
    IN  [counter |-> [c EXCEPT !.ack_hist = r[1]], value |-> r[2]]

\* the bug of dividing the latency sums by the points-weighted ack sums
get_average_latencies_weighted(c, over_seconds, t) ==
    LET burst_counts == map_sum(c.ack_hist, over_seconds, t[1])
        latency_sums == map_sum(c.latency_hist, over_seconds, t[2])
    IN  [counter |-> [c EXCEPT !.ack_hist = burst_counts[1],
                               !.latency_hist = latency_sums[1]],
         value |-> [i \in 1..Len(over_seconds) |->
                       IF burst_counts[2][i] > 0
                       THEN <<latency_sums[2][i], burst_counts[2][i]>>
                       ELSE <<0, 0>>]]

\* t = <<clock reading of the first map, of the second map>>; a value is
\* <<latency sum in clock units, bursts>>, <<0, 0>> for the literal 0
get_average_latencies(c, over_seconds, t) ==
    LET burst_counts == map_sum(c.acked_burst_hist, over_seconds, t[1])
        latency_sums == map_sum(c.latency_hist, over_seconds, t[2])
    IN  [counter |-> [c EXCEPT !.acked_burst_hist = burst_counts[1],
                               !.latency_hist = latency_sums[1]],
         value |-> [i \in 1..Len(over_seconds) |->
                       IF burst_counts[2][i] > 0
                       THEN <<latency_sums[2][i], burst_counts[2][i]>>
                       ELSE <<0, 0>>]]

\* python: {}
EmptyDict == [x \in {} |-> 0]

\* python: d.get(k), with "None" for None
get(d, k) == IF k \in DOMAIN d THEN d[k] ELSE "None"

\* A line of input, stripped, as the three things process_line takes from it:
\* k, tok, v = line.partition(':') (v stripped) and words = line.split()
LineOf(k, tok, v, words) == [k |-> k, tok |-> tok, v |-> v, words |-> words]

\* python: 'received ' in line
HasReceived(line) == \E i \in 1..(Len(line.words) - 1) : line.words[i] = "received"
\* python: 'got ingestd ACK' in line
HasAck(line) ==
    \E i \in 1..(Len(line.words) - 2) :
        /\ line.words[i] = "got" /\ line.words[i + 1] = "ingestd" /\ line.words[i + 2] = "ACK"

\* ThroughputCounter.process_line with self._reader_state = rs, every time()
\* of the handlers it calls reading tnow. `state` is the dict object that
\* self._reader_state names, so state[k] = v is seen through both; the
\* assignments `self_reader_state = state = {}` after a dispatch bind two
\* locals and leave self._reader_state naming the dict that was dispatched.
process_line(c, rs, line, tnow) ==
    LET haskv == line.tok = ":"
        state == IF haskv THEN With(rs, line.k, line.v) ELSE rs
        isburst == haskv /\ get(state, "reading") = "burst" /\ line.k = "points"
        isack == haskv /\ get(state, "reading") = "ack" /\ line.k = "message id"
        r == IF isburst THEN process_burst(c, state, <<tnow, tnow, tnow>>)
             ELSE IF isack THEN process_ack(c, state, <<tnow, tnow, tnow, tnow>>)
             ELSE [counter |-> c, raised |-> "none"]
        badbytes == r.raised = "none" /\ HasReceived(line) /\ ~IsNumeric(line.words[2])
    IN  [ counter |-> r.counter,
          reader_state |->
              IF r.raised # "none" \/ badbytes THEN state
              ELSE IF HasReceived(line) THEN [reading |-> "burst", bytes |-> int(line.words[2])]
              ELSE IF HasAck(line) THEN [reading |-> "ack"]
              ELSE state,
          raised |-> IF badbytes THEN "ValueError" ELSE r.raised,
          dispatched |-> IF isburst THEN "burst" ELSE IF isack THEN "ack" ELSE "none" ]

\* ThroughputPrinter.avgtimes, (600, 60, 1) in the source: the whole buffer
\* down to one second
avgtimes == <<nbins600, 1>>

\* ThroughputPrinter.print_throughput: the three readers in turn, then the
\* outstanding points; out is the row written
print_throughput(c, tnow) ==
    LET bursts_per_second == get_points_per_seconds(c, avgtimes, tnow)
        acks_per_second == get_acks_per_second(bursts_per_second.counter, avgtimes, tnow)
        mean_latencies == get_average_latencies(acks_per_second.counter, avgtimes, <<tnow, tnow>>)
        outstanding_points == get_total_outstanding_points(mean_latencies.counter)
    IN  [ counter |-> mean_latencies.counter,
          out |-> <<bursts_per_second.value, acks_per_second.value,
                    mean_latencies.value, outstanding_points>> ]

\* ---- a single TimeHistogram, called directly ----

NoCall == [op |-> "none", k |-> 0, num |-> 0, den |-> 0, seq |-> <<>>, gap |-> 0,
           key |-> "", shape |-> "", raised |-> "none", matched |-> FALSE, hs |-> <<>>]

NoCalls == [nbursts |-> 0, unacked |-> {}, reused |-> FALSE, acks |-> <<>>,
            dispatched |-> 0, nlines |-> 0, due |-> 0, ran |-> <<>>]

\* TimeAware.__init__ at clock reading t (tick_handlers are the steps of the
\* event loop specification)
TimeAware(ticklen, t) ==
    [last_tick |-> t, start_time |-> t, ticklen |-> ticklen, n_ticks |-> 0, totalticktime |-> 0]

\* the event loop and the streams where no event loop runs
NotRunning == [timer |-> TimeAware(1, 0), pc |-> "none", tnow |-> 0]
NoIO == [stdin |-> "open", lines_printed |-> 0]

\* tick interval of w that clock reading t falls in, counted from start_time
IntervalOf(w, t) == (t - w.start_time) \div (w.ticklen * Res)

MaxInterval == MaxTime \div Res

InitHist ==
    /\ now = 0
    /\ \E nb \in 1..MaxNBins, spb \in 1..MaxSecondsPerBin : h = TimeHistogram(nb, spb, 0)
    /\ added = [i \in 0..MaxInterval |-> 0]
    /\ nadds = 0
    /\ idle = 0
    /\ last = NoCall
    /\ counter = ThroughputCounter([i \in 1..5 |-> 0])
    /\ g = NoCalls
    /\ reader_state = EmptyDict
    /\ event_loop = NotRunning
    /\ io = NoIO

\* the wall clock advances by one unit
Advance ==
    /\ now < MaxTime
    /\ now' = now + 1
    /\ idle' = idle + 1
    /\ last' = NoCall
    /\ UNCHANGED <<h, added, nadds, counter, g, reader_state, event_loop, io>>

CallAdd ==
    \E n \in 1..MaxN :
        /\ nadds < MaxAdds
        /\ h' = add(h, n, now)
        /\ added' = [added EXCEPT ![IntervalOf(h, now)] = @ + n]
        /\ nadds' = nadds + 1
        /\ idle' = 0
        /\ last' = [NoCall EXCEPT !.op = "add", !.k = n, !.gap = idle]
        /\ UNCHANGED <<now, counter, g, reader_state, event_loop, io>>

CallBins ==
    /\ h' = bins(h, now)[1]
    /\ idle' = 0
    /\ last' = [NoCall EXCEPT !.op = "bins", !.seq = bins(h, now)[2], !.gap = idle]
    /\ UNCHANGED <<now, added, nadds, counter, g, reader_state, event_loop, io>>

CallSum ==
    \E k \in 0..MaxK :
        /\ h' = sum(h, k, now)[1]
        /\ idle' = 0
        /\ last' = [NoCall EXCEPT !.op = "sum", !.k = k, !.num = sum(h, k, now)[2], !.gap = idle]
        /\ UNCHANGED <<now, added, nadds, counter, g, reader_state, event_loop, io>>

CallMean ==
    \E k \in 0..MaxK :
        /\ h' = mean(h, k, now)[1]
        /\ idle' = IF mean(h, k, now)[3] # 0 THEN 0 ELSE idle
        /\ last' = [NoCall EXCEPT !.op = "mean", !.k = k, !.num = mean(h, k, now)[2],
                                  !.den = mean(h, k, now)[3], !.gap = idle]
        /\ UNCHANGED <<now, added, nadds, counter, g, reader_state, event_loop, io>>

NextHist == Advance \/ CallAdd \/ CallBins \/ CallSum \/ CallMean

Spec == InitHist /\ [][NextHist]_vars

\* ---- a single TimeHistogram under a clock that can be set back ----

\* the wall clock is set back to an earlier reading
Regress ==
    /\ \E t \in 0..(now - 1) : now' = t
    /\ idle' = 0
    /\ last' = NoCall
    /\ UNCHANGED <<h, added, nadds, counter, g, reader_state, event_loop, io>>

\* the wall clock advances by one unit
AdvanceG ==
    /\ now < MaxTimeG
    /\ now' = now + 1
    /\ idle' = idle + 1
    /\ last' = NoCall
    /\ UNCHANGED <<h, added, nadds, counter, g, reader_state, event_loop, io>>

NextRegress == AdvanceG \/ CallAdd \/ CallBins \/ CallSum \/ CallMean \/ Regress

SpecRegress == InitHist /\ [][NextRegress]_vars

\* ---- a ThroughputCounter, fed burst and ack records ----

Identities == {"a", "ab"}
MessageIds == {"c", "bc"}
\* values of a points field: decimal strings and one that int() rejects
PointStrings == {ToString(n) : n \in 1..MaxPoints} \cup {"x"}

FieldValues(f) ==
    CASE f = "identity" -> Identities
      [] f = "message id" -> MessageIds
      [] f = "points" -> PointStrings

\* the dicts process_line can hand over with every field of `fields` present
Complete(fields) ==
    { d \in [fields -> Identities \cup MessageIds \cup PointStrings] :
        \A f \in fields : d[f] \in FieldValues(f) }

\* the dicts with one or more of `fields` missing; what the present fields hold
\* is never read, so one value stands for each
Incomplete(fields) ==
    { [f \in D |-> CHOOSE v \in FieldValues(f) : TRUE] : D \in (SUBSET fields) \ {fields} }

BurstData == Complete({"identity", "message id", "points"}) \cup Incomplete({"identity", "message id", "points"})
AckData == Complete({"identity", "message id"}) \cup Incomplete({"identity", "message id"})

InitCounter ==
    /\ \E s \in [1..5 -> 0..MaxSkew] :
          /\ \A i \in 1..4 : s[i] <= s[i + 1]
          /\ counter = ThroughputCounter(s)
          /\ now = s[5]
    /\ g = NoCalls
    /\ h = TimeHistogram(1, 1, 0)
    /\ added = [i \in 0..MaxInterval |-> 0]
    /\ nadds = 0
    /\ idle = 0
    /\ last = NoCall
    /\ reader_state = EmptyDict
    /\ event_loop = NotRunning
    /\ io = NoIO

\* ghost: when the most recent burst recorded under key was recorded
LatestAt(us, key) == LET ats == {u.at : u \in {x \in us : x.key = key}}
                     IN  CHOOSE a \in ats : \A b \in ats : b <= a

\* the wall clock advances by one unit, up to T
AdvanceUpTo(T) ==
    /\ now < T
    /\ now' = now + 1
    /\ last' = NoCall
    /\ UNCHANGED <<h, added, nadds, idle, counter, g, reader_state, event_loop, io>>

AdvanceC == AdvanceUpTo(MaxTimeC)

\* process_burst is handed one of the dicts D; the clock advances by at most Dr
\* between two of its readings and its last reading is at most T
Burst(D, T, Dr) ==
    \E data \in D, d1 \in 0..Dr, d2 \in 0..Dr :
        LET t == <<now, now + d1, now + d1 + d2>>
            r == process_burst(counter, data, t)
            wellformed == HasAll(data, {"identity", "message id", "points"})
            recorded == wellformed /\ IsNumeric(data["points"])
            key == IF recorded THEN data["identity"] \o data["message id"] ELSE ""
        IN  /\ recorded => g.nbursts < MaxBursts
            /\ t[3] <= T
            /\ ~recorded => (d1 = 0 /\ d2 = 0)
            /\ counter' = r.counter
            /\ now' = t[3]
            /\ g' = [g EXCEPT
                      !.nbursts = IF recorded THEN g.nbursts + 1 ELSE g.nbursts,
                      !.unacked = IF recorded
                                  THEN g.unacked \cup {[key |-> key, points |-> int(data["points"]),
                                                        at |-> now]}
                                  ELSE g.unacked,
                      !.reused = g.reused \/ (recorded /\ \E u \in g.unacked : u.key = key) ]
            /\ last' = [NoCall EXCEPT !.op = "burst", !.key = key, !.raised = r.raised,
                                      !.k = IF recorded THEN int(data["points"]) ELSE 0,
                                      !.shape = IF ~wellformed THEN "missing"
                                                ELSE IF ~recorded THEN "nonnumeric"
                                                ELSE "wellformed"]
            /\ UNCHANGED <<h, added, nadds, idle, reader_state, event_loop, io>>

ProcessBurst == Burst(BurstData, MaxTimeC, MaxDrift)

\* process_ack is handed one of the dicts D; the clock advances by at most Dr
\* between two of its readings and its last reading is at most T
Ack(D, T, Dr) ==
    \E data \in D, d1 \in 0..Dr, d2 \in 0..Dr, d3 \in 0..Dr :
        LET t == <<now, now + d1, now + d1 + d2, now + d1 + d2 + d3>>
            r == process_ack(counter, data, t)
            wellformed == HasAll(data, {"identity", "message id"})
            key == IF wellformed THEN data["identity"] \o data["message id"] ELSE ""
            matched == wellformed /\ \E u \in g.unacked : u.key = key
        IN  /\ t[4] <= T
            /\ ~matched => (d1 = 0 /\ d2 = 0 /\ d3 = 0)
            /\ counter' = r.counter
            /\ now' = t[4]
            /\ g' = [g EXCEPT
                      !.unacked = IF wellformed THEN {u \in g.unacked : u.key # key}
                                  ELSE g.unacked,
                      !.acks = IF matched
                               THEN Append(g.acks, [latency |-> now - LatestAt(g.unacked, key),
                                                    at |-> t[3]])
                               ELSE g.acks ]
            /\ last' = [NoCall EXCEPT !.op = "ack", !.key = key, !.raised = r.raised,
                                      !.matched = matched,
                                      !.shape = IF wellformed THEN "wellformed" ELSE "missing"]
            /\ UNCHANGED <<h, added, nadds, idle, reader_state, event_loop, io>>

ProcessAck == Ack(AckData, MaxTimeC, MaxDrift)

NextCounter == AdvanceC \/ ProcessBurst \/ ProcessAck

SpecCounter == InitCounter /\ [][NextCounter]_vars

\* ---- a ThroughputCounter, fed well-formed records and read ----

\* the horizon lists handed to the readers: one horizon, or the program's
\* descending list from the whole buffer down to one second
HorizonLists == {<<k>> : k \in 1..MaxHorizon} \cup {<<CounterNBins, 1>>}

\* well-formed records of one sender
BurstRecords == {d \in Complete({"identity", "message id", "points"}) :
                    d["identity"] = "a" /\ IsNumeric(d["points"])}
AckRecords == {d \in Complete({"identity", "message id"}) : d["identity"] = "a"}

\* a reader that maps over two windows, its second clock reading at most T
ReadTwo(T, op, ks, d) ==
    LET t == <<now, now + d>>
        r == CASE op = "get_outstanding" -> get_outstanding(counter, ks, t)
               [] op = "get_average_latencies" -> get_average_latencies(counter, ks, t)
    IN  /\ t[2] <= T
        /\ counter' = r.counter
        /\ now' = t[2]
        /\ last' = [NoCall EXCEPT !.op = op, !.hs = ks, !.seq = r.value]
        /\ UNCHANGED <<h, added, nadds, idle, g, reader_state, event_loop, io>>

\* a reader that maps over one window
ReadOne(op, ks) ==
    LET r == CASE op = "get_points_per_seconds" -> get_points_per_seconds(counter, ks, now)
               [] op = "get_total_bursts" -> get_total_bursts(counter, ks, now)
               [] op = "get_acks_per_second" -> get_acks_per_second(counter, ks, now)
    IN  /\ counter' = r.counter
        /\ last' = [NoCall EXCEPT !.op = op, !.hs = ks, !.seq = r.value]
        /\ UNCHANGED <<now, h, added, nadds, idle, g, reader_state, event_loop, io>>

AdvanceR == AdvanceUpTo(MaxTimeC)

BurstR == Burst(BurstRecords, MaxTimeC, 0)

AckR == Ack(AckRecords, MaxTimeC, 0)

GetOutstanding ==
    \E ks \in HorizonLists, d \in 0..MaxDrift : ReadTwo(MaxTimeC, "get_outstanding", ks, d)

GetPointsPerSeconds == \E ks \in HorizonLists : ReadOne("get_points_per_seconds", ks)

GetTotalBursts == \E ks \in HorizonLists : ReadOne("get_total_bursts", ks)

GetAcksPerSecond == \E ks \in HorizonLists : ReadOne("get_acks_per_second", ks)

NextReport ==
    \/ AdvanceR \/ BurstR \/ AckR
    \/ GetOutstanding \/ GetPointsPerSeconds \/ GetTotalBursts \/ GetAcksPerSecond

SpecReport == InitCounter /\ [][NextReport]_vars

\* ---- a ThroughputCounter, fed well-formed records, its latencies read ----

AdvanceL == AdvanceUpTo(MaxTimeR)

BurstL == Burst(BurstRecords, MaxTimeR, 0)

AckL == Ack(AckRecords, MaxTimeR, MaxDrift)

GetAverageLatencies ==
    \E ks \in HorizonLists, d \in 0..MaxDrift : ReadTwo(MaxTimeR, "get_average_latencies", ks, d)

NextLatency == AdvanceL \/ BurstL \/ AckL \/ GetAverageLatencies

SpecLatency == InitCounter /\ [][NextLatency]_vars

\* ---- the program: the event loop draining stdin and reporting ----

\* the lines a burstnetsink trace is made of, after strip()
ReceivedLine == LineOf("received 1 bytes", "", "", <<"received", "1", "bytes">>)
AckLine == LineOf("got ingestd ACK", "", "", <<"got", "ingestd", "ACK">>)
IdentityLine == LineOf("identity", ":", "a", <<"identity:", "a">>)
MessageIdLine == LineOf("message id", ":", "c", <<"message", "id:", "c">>)
PointsLines == {LineOf("points", ":", p, <<"points:", p>>) : p \in PointStrings}
Lines == {ReceivedLine, AckLine, IdentityLine, MessageIdLine} \cup PointsLines
\* readline() at end of file returns ''
EmptyLine == LineOf("", "", "", <<>>)

InitLoop ==
    /\ now = 0
    /\ counter = ThroughputCounter([i \in 1..5 |-> 0])
    /\ reader_state = EmptyDict
    /\ event_loop = [timer |-> TimeAware(1, 0), pc |-> "run_forever", tnow |-> 0]
    /\ io = NoIO
    /\ g = NoCalls
    /\ last = NoCall
    /\ h = TimeHistogram(1, 1, 0)
    /\ added = [i \in 0..MaxInterval |-> 0]
    /\ nadds = 0
    /\ idle = 0

\* the wall clock advances by one unit
AdvanceE ==
    /\ now < MaxTimeR
    /\ now' = now + 1
    /\ last' = NoCall
    /\ UNCHANGED <<h, added, nadds, idle, counter, g, reader_state, event_loop, io>>

\* the writer of stdin closes its end
CloseStdin ==
    /\ io.stdin = "open"
    /\ io' = [io EXCEPT !.stdin = "closed"]
    /\ UNCHANGED <<now, h, added, nadds, idle, last, counter, g, reader_state, event_loop>>

\* run_forever wakes up and calls check_for_tick_changed, which reads the clock
Wake ==
    /\ event_loop.pc = "run_forever"
    /\ event_loop' = [event_loop EXCEPT !.pc = "while", !.tnow = now]
    /\ g' = [g EXCEPT !.due = (now - event_loop.timer.last_tick)
                                  \div (event_loop.timer.ticklen * Res),
                      !.ran = <<>>]
    /\ UNCHANGED <<now, h, added, nadds, idle, last, counter, reader_state, io>>

\* the while test of check_for_tick_changed: a tick is due and on_tick_change
\* calls the first handler, or none is due and run_forever sleeps
WhileTick ==
    /\ event_loop.pc = "while"
    /\ IF event_loop.tnow - event_loop.timer.last_tick >= event_loop.timer.ticklen * Res
       THEN /\ event_loop' = [event_loop EXCEPT
                                 !.timer.n_ticks = @ + 1,
                                 !.timer.totalticktime = @ + event_loop.timer.ticklen,
                                 !.timer.last_tick = @ + event_loop.timer.ticklen * Res,
                                 !.pc = "process_lines_from_stream"]
            /\ g' = [g EXCEPT !.ran = Append(@, "process_lines_from_stream")]
       ELSE /\ event_loop' = [event_loop EXCEPT !.pc = "run_forever"]
            /\ g' = g
    /\ UNCHANGED <<now, h, added, nadds, idle, last, counter, reader_state, io>>

\* process_lines_from_stream: readline() returns a line, process_line takes it
ReadLine ==
    \E line \in Lines :
        LET r == process_line(counter, reader_state, line, now)
            recorded == r.dispatched = "burst" /\ r.counter # counter
        IN  /\ event_loop.pc = "process_lines_from_stream"
            /\ io.stdin = "open"
            /\ g.nlines < MaxLines
            /\ recorded => g.nbursts < MaxBursts
            /\ counter' = r.counter
            /\ reader_state' = r.reader_state
            /\ event_loop' = [event_loop EXCEPT !.pc = IF r.raised = "none" THEN @ ELSE "raised"]
            /\ g' = [g EXCEPT !.nlines = @ + 1,
                              !.nbursts = IF recorded THEN @ + 1 ELSE @,
                              !.dispatched = IF r.raised = "none" /\ (HasReceived(line) \/ HasAck(line))
                                             THEN 0
                                             ELSE IF r.counter # counter THEN @ + 1 ELSE @]
            /\ last' = [NoCall EXCEPT !.op = "readline", !.shape = "line",
                                      !.key = r.dispatched, !.raised = r.raised]
            /\ UNCHANGED <<now, h, added, nadds, idle, io>>

\* process_lines_from_stream: nothing to read for now, readline() raises
\* IOError and the handler returns; on_tick_change calls the next handler
ReadNothing ==
    /\ event_loop.pc = "process_lines_from_stream"
    /\ io.stdin = "open"
    /\ event_loop' = [event_loop EXCEPT !.pc = "print_throughput"]
    /\ g' = [g EXCEPT !.ran = Append(@, "print_throughput")]
    /\ last' = [NoCall EXCEPT !.op = "readline", !.shape = "nodata", !.raised = "IOError"]
    /\ UNCHANGED <<now, h, added, nadds, idle, counter, reader_state, io>>

\* process_lines_from_stream: at end of file readline() returns '' and raises
\* nothing; process_line('') does nothing and the while True loop goes round
ReadAtEOF ==
    LET r == process_line(counter, reader_state, EmptyLine, now)
    IN  /\ event_loop.pc = "process_lines_from_stream"
        /\ io.stdin = "closed"
        /\ counter' = r.counter
        /\ reader_state' = r.reader_state
        /\ last' = [NoCall EXCEPT !.op = "readline", !.shape = "eof", !.raised = r.raised]
        /\ UNCHANGED <<now, h, added, nadds, idle, g, event_loop, io>>

\* print_throughput writes its row and returns to the while test
PrintThroughput ==
    LET r == print_throughput(counter, now)
    IN  /\ event_loop.pc = "print_throughput"
        /\ counter' = r.counter
        /\ io' = [io EXCEPT !.lines_printed = @ + 1]
        /\ event_loop' = [event_loop EXCEPT !.pc = "while"]
        /\ last' = [NoCall EXCEPT !.op = "print_throughput", !.seq = r.out]
        /\ UNCHANGED <<now, h, added, nadds, idle, g, reader_state>>

NextLoop ==
    \/ AdvanceE \/ CloseStdin \/ Wake \/ WhileTick
    \/ ReadLine \/ ReadNothing \/ ReadAtEOF \/ PrintThroughput

SpecLoop == InitLoop /\ [][NextLoop]_vars

\* ---- claims about the histogram ----

RECURSIVE SumAdded(_, _)
\* ghost total of the n added in tick intervals lo..hi of h
SumAdded(lo, hi) == IF lo > hi THEN 0 ELSE added[hi] + SumAdded(lo, hi - 1)

TotalAdded == SumAdded(0, MaxInterval)

\* total added in the c most recent tick intervals, the open one included
AddedInLast(c) == SumAdded(Max(0, IntervalOf(h, now) - c + 1), IntervalOf(h, now))

\* C1: whatever the interleaving of add calls and clock advances, the bins read
\* through the bins property add up to what was added in the nbins most recent
\* tick intervals (the open one and the nbins - 1 before it): nothing older is
\* still counted, nothing newer is lost.
C1_BinsSumIsTrailingWindow ==
    last.op = "bins" =>
        /\ Len(last.seq) = h.nbins
        /\ SumSeq(last.seq) = AddedInLast(h.nbins)

\* C1 witness: bins read after the buffer wrapped around, an idle gap of more
\* than one tick passed, some adds were evicted and some are still counted
C1_Witness ==
    /\ last.op = "bins"
    /\ h.n_ticks > h.nbins
    /\ last.gap >= 2 * h.ticklen * Res
    /\ SumSeq(last.seq) > 0
    /\ TotalAdded > SumSeq(last.seq)

\* whole tick intervals that elapsed in the idle gap before the last call
GapTicks == last.gap \div (h.ticklen * Res)

\* C2: when m >= 1 whole tick intervals elapse with no call on the window, the
\* next read of bins has its most recent min(m, nbins) bins equal to zero.
C2_IdleGapZeroesBins ==
    (last.op = "bins" /\ GapTicks >= 1) =>
        \A i \in 1..Len(last.seq) :
            i > Len(last.seq) - Min(GapTicks, h.nbins) => last.seq[i] = 0

\* C2 witness: three bins, a gap of two whole ticks, and the two most recent
\* bins are slots that held adds before the catch-up zeroed them
C2_Witness ==
    /\ last.op = "bins"
    /\ h.nbins = 3
    /\ GapTicks = 2
    /\ IntervalOf(h, now) >= 4
    /\ added[IntervalOf(h, now) - 3] > 0
    /\ added[IntervalOf(h, now) - 4] > 0
    /\ last.seq[2] = 0 /\ last.seq[3] = 0

\* C3 (as claimed, for the seconds_per_bin = 1 the program uses): mean(k) on a
\* window alive for t whole ticks, 0 < t < k, returns the total added since
\* construction divided by t.
C3_MeanOverAliveTime ==
    (last.op = "mean" /\ h.ticklen = 1 /\ IntervalOf(h, now) > 0 /\ IntervalOf(h, now) < last.k) =>
        IF last.den = 0
        THEN TotalAdded = 0
        ELSE last.num * IntervalOf(h, now) = TotalAdded * last.den

\* ceil(k / d) for k >= 0, d > 0
CeilDiv(k, d) == (k + d - 1) \div d

\* C4 (as claimed, for the seconds_per_bin = 1 the program uses): sum(k), for
\* every k >= 0, returns what was added in the min(ceil(k / seconds_per_bin),
\* nbins) most recent tick intervals.
C4_SumOverLastBins ==
    (last.op = "sum" /\ h.ticklen = 1) =>
        last.num = AddedInLast(Min(CeilDiv(last.k, h.ticklen), h.nbins))

\* C5: on a fresh window, while the clock has not advanced since construction,
\* sum(k) returns the total of all n added, for every k of at least one tick.
C5_SumWithNoTimePassing ==
    (last.op = "sum" /\ now = h.start_time /\ last.k >= h.ticklen) =>
        last.num = TotalAdded

\* C5 witness: two or more adds at the construction time, then a sum
C5_Witness ==
    /\ last.op = "sum"
    /\ now = h.start_time
    /\ last.k >= h.ticklen
    /\ nadds >= 2
    /\ last.num = TotalAdded
\* C18: current_bin is within 0..nbins - 1 in every reachable state, and when
\* the clock reads earlier than last_tick a call that reconciles the window
\* advances zero ticks: current_bin, the bins, n_ticks, totalticktime and
\* last_tick are as before (add then adds n to the open bin).
C18_ClockRegressionAdvancesNothing ==
    /\ [](h.current_bin \in 0..(h.nbins - 1))
    /\ [][ (now < h.last_tick) =>
             /\ last'.op \in {"bins", "sum", "mean"} => h' = h
             /\ last'.op = "add" =>
                   h' = [h EXCEPT !.bins_[h.current_bin + 1] = @ + last'.k]
         ]_vars

\* C18 witness: the bins are read with the clock a whole tick or more before
\* last_tick, on a window that had ticked twice and holds adds
C18_Witness ==
    /\ last.op = "bins"
    /\ h.last_tick - now >= h.ticklen * Res
    /\ h.n_ticks >= 2
    /\ SumSeq(last.seq) > 0

\* ---- claims about the ThroughputCounter ----

RECURSIVE SumUnacked(_)
\* ghost total of the point counts of a set of recorded bursts
SumUnacked(us) ==
    IF us = {} THEN 0
    ELSE LET u == CHOOSE x \in us : TRUE
         IN  u.points + SumUnacked(us \ {u})

\* window w2 is window w after exactly x was added: the open bin holds x more
\* than it did (x alone when a tick opened a new bin), and no other bin gained
GainedExactly(w, w2, x) ==
    /\ w2.bins_[w2.current_bin + 1] =
           (IF w2.last_tick = w.last_tick THEN w.bins_[w.current_bin + 1] ELSE 0) + x
    /\ \A i \in 1..w.nbins :
           i # w2.current_bin + 1 => w2.bins_[i] \in {w.bins_[i], 0}

\* C6: as long as no key was reused while outstanding, the outstanding-burst
\* table holds exactly the bursts recorded and not yet acked under their key,
\* and get_total_outstanding_points() is the sum of their point counts.
C6_OutstandingIsRecordedMinusAcked ==
    ~g.reused =>
        /\ DOMAIN counter.outstanding_bursts = {u.key : u \in g.unacked}
        /\ get_total_outstanding_points(counter) = SumUnacked(g.unacked)

\* C6 witness: two bursts were recorded, an ack for one of them was processed,
\* and the other is still outstanding
C6_Witness ==
    /\ ~g.reused
    /\ g.nbursts = 2
    /\ last.op = "ack" /\ last.matched
    /\ Cardinality(g.unacked) = 1
    /\ get_total_outstanding_points(counter) = MaxPoints

\* C7: when the only outstanding burst is acked (process_burst(id, mid, p), then
\* process_ack(id, mid)), nothing is outstanding afterwards, the points-weighted
\* ack window gains exactly p, the acked-bursts window exactly 1, and the latency
\* window the clock time that elapsed between the two calls.
C7_RoundTrip ==
    [][ \A u \in g.unacked :
          ( /\ last'.op = "ack" /\ last'.shape = "wellformed" /\ last'.key = u.key
            /\ g.unacked = {u}
            /\ ~g.reused )
          => /\ get_total_outstanding_points(counter') = 0
             /\ DOMAIN counter'.outstanding_bursts = {}
             /\ GainedExactly(counter.ack_hist, counter'.ack_hist, u.points)
             /\ GainedExactly(counter.acked_burst_hist, counter'.acked_burst_hist, 1)
             /\ GainedExactly(counter.latency_hist, counter'.latency_hist, now - u.at)
      ]_vars

\* C7 witness: a burst of MaxPoints points, then its ack one clock unit or more
\* later, on a fresh aggregator
C7_Witness ==
    /\ g.nbursts = 1
    /\ last.op = "ack" /\ last.matched
    /\ g.unacked = {}
    /\ SumSeq(counter.ack_hist.bins_) = MaxPoints
    /\ SumSeq(counter.acked_burst_hist.bins_) = 1
    /\ SumSeq(counter.latency_hist.bins_) > 0

\* C8: a well-formed process_ack whose key is not outstanding (never seen, or
\* already acked) leaves the five windows and the outstanding-burst table as
\* they were.
C8_UnmatchedAckChangesNothing ==
    [][ ( /\ last'.op = "ack" /\ last'.shape = "wellformed"
          /\ last'.key \notin DOMAIN counter.outstanding_bursts )
        => /\ counter' = counter
           /\ last'.raised = "none"
      ]_vars

\* C8 witness: a second ack for a burst that was already acked
C8_Witness ==
    /\ g.nbursts = 1 /\ g.unacked = {}
    /\ last.op = "ack" /\ last.shape = "wellformed" /\ ~last.matched
    /\ SumSeq(counter.acked_burst_hist.bins_) = 1
    /\ last.raised = "none"

\* C9: a burst record missing identity, message id or points, and an ack record
\* missing identity or message id, is dropped: the handler returns without
\* raising and the table and the five windows are unchanged.
C9_MissingFieldDropped ==
    [][ (last'.shape = "missing")
        => /\ counter' = counter
           /\ last'.raised = "none"
      ]_vars

\* C9 witness: a burst record with a field missing arrives while another burst
\* is outstanding
C9_Witness ==
    /\ last.op = "burst" /\ last.shape = "missing"
    /\ last.raised = "none"
    /\ DOMAIN counter.outstanding_bursts # {}

\* C10 (as claimed): a burst record whose points field is not numeric is
\* dropped: process_burst leaves the state unchanged and returns without raising.
C10_NonNumericPointsDropped ==
    [][ (last'.op = "burst" /\ last'.shape = "nonnumeric")
        => /\ counter' = counter
           /\ last'.raised = "none"
      ]_vars

\* C16: a process_burst under a key that is still outstanding overwrites the
\* entry with the newer (timestamp, points): the table keeps one entry for the
\* key and the total counts only the newer points, while the burst window and
\* the points window are incremented for this burst as for the first; the ack
\* that follows removes the entry and its latency runs from the newer burst.
C16_DuplicateKeyOverwrites ==
    [][ /\ ( /\ last'.op = "burst" /\ last'.shape = "wellformed"
             /\ last'.key \in DOMAIN counter.outstanding_bursts )
           => /\ DOMAIN counter'.outstanding_bursts = DOMAIN counter.outstanding_bursts
              /\ counter'.outstanding_bursts[last'.key] = [timestamp |-> now, points |-> last'.k]
              /\ get_total_outstanding_points(counter') =
                     get_total_outstanding_points(counter)
                     - counter.outstanding_bursts[last'.key].points + last'.k
              /\ GainedExactly(counter.burst_hist, counter'.burst_hist, 1)
              /\ GainedExactly(counter.point_hist, counter'.point_hist, last'.k)
        /\ ( /\ last'.op = "ack" /\ last'.matched
             /\ Cardinality({u \in g.unacked : u.key = last'.key}) > 1 )
           => /\ last'.key \notin DOMAIN counter'.outstanding_bursts
              /\ GainedExactly(counter.latency_hist, counter'.latency_hist,
                               now - LatestAt(g.unacked, last'.key))
              /\ GainedExactly(counter.acked_burst_hist, counter'.acked_burst_hist, 1)
      ]_vars

\* C16 witness: two bursts under one key, of 3 points together, then one ack:
\* nothing is outstanding, both bursts are in the burst and points windows, and
\* the ack carried one point and a latency of one clock unit
C16_Witness ==
    /\ g.reused /\ g.nbursts = 2
    /\ last.op = "ack" /\ last.matched
    /\ DOMAIN counter.outstanding_bursts = {}
    /\ SumSeq(counter.burst_hist.bins_) = 2
    /\ SumSeq(counter.point_hist.bins_) = 3
    /\ SumSeq(counter.ack_hist.bins_) = 1
    /\ SumSeq(counter.acked_burst_hist.bins_) = 1
    /\ SumSeq(counter.latency_hist.bins_) = 1
    /\ now >= 2

\* ---- claims about the readers of the ThroughputCounter ----

\* C11 (as claimed): get_outstanding returns, for every horizon of its list,
\* the bursts started within the horizon minus the acks received within it:
\* the sum of the burst-count window minus the sum of the acked-bursts window
\* over that horizon, a count of bursts and not a difference of point totals.
C11_OutstandingCountsBursts ==
    last.op = "get_outstanding" =>
        \A i \in 1..Len(last.hs) :
            last.seq[i] = sum(counter.burst_hist, last.hs[i], now)[2]
                          - sum(counter.acked_burst_hist, last.hs[i], now)[2]

\* two results of mean, each <<num, den>> with <<_, 0>> the literal 0, are the
\* same number
SameMean(a, b) ==
    IF a[2] = 0 THEN (b[2] = 0 \/ b[1] = 0)
    ELSE IF b[2] = 0 THEN a[1] = 0
    ELSE a[1] * b[2] = b[1] * a[2]

\* C17 (as claimed): on a window that has been alive for k seconds or more and
\* is up to date, mean(k) with k > nbins * seconds_per_bin is the sum of all
\* bins divided by nbins, the same number as mean(nbins * seconds_per_bin).
C17_MeanBeyondCapacity ==
    [][ ( /\ last'.op = "mean"
          /\ last'.k > h.nbins * h.ticklen
          /\ h.totalticktime >= last'.k
          /\ now - h.last_tick < h.ticklen * Res )
        => /\ SameMean(<<last'.num, last'.den>>, <<SumSeq(h.bins_), h.nbins>>)
           /\ SameMean(<<last'.num, last'.den>>,
                       <<mean(h, h.nbins * h.ticklen, now)[2], mean(h, h.nbins * h.ticklen, now)[3]>>)
      ]_vars

\* what map(w.mean, ks) returns at clock reading tnow is the list of numbers vs
MeansAre(vs, w, ks, tnow) ==
    \A i \in 1..Len(ks) : SameMean(vs[i], map_mean(w, ks, tnow)[2][i])

\* C12 (as claimed): for every horizon of its list, get_acks_per_second returns
\* the mean of the acked-bursts window (each ack counted as 1),
\* get_points_per_seconds the mean of the points window and get_total_bursts
\* the mean of the bursts window.
C12_RatesAreWindowMeans ==
    [][ /\ last'.op = "get_acks_per_second" =>
              MeansAre(last'.seq, counter.acked_burst_hist, last'.hs, now)
        /\ last'.op = "get_points_per_seconds" =>
              MeansAre(last'.seq, counter.point_hist, last'.hs, now)
        /\ last'.op = "get_total_bursts" =>
              MeansAre(last'.seq, counter.burst_hist, last'.hs, now)
      ]_vars

RECURSIVE TrailingSum(_, _)
\* what the c bins of w written last hold together: the open bin and the c - 1
\* written before it, going backwards around the ring (c <= nbins)
TrailingSum(w, c) ==
    IF c = 0 THEN 0
    ELSE w.bins_[((w.current_bin - (c - 1)) % w.nbins) + 1] + TrailingSum(w, c - 1)

\* the scenario of C13, points scaled by 1/50: a burst of 2 points at t = 0, a
\* burst of 1 point under another message id at t = 0.5 s, the first acked at
\* t = 2 s, then the mean latencies read
C13_Scenario ==
    /\ last.op = "get_average_latencies"
    /\ g.nbursts = 2
    /\ SumSeq(counter.point_hist.bins_) = 3
    /\ \E u \in g.unacked : g.unacked = {u} /\ u.points = 1 /\ 2 * u.at = Res
    /\ Len(g.acks) = 1
    /\ g.acks[1].latency = 2 * Res

\* C13: for every horizon of its list, get_average_latencies returns the sum of
\* the latency window over the horizon divided by the sum of the acked-bursts
\* window over it, and 0 when no burst was acked in it. In the scenario (burst
\* of 100 points at t=0, burst of 50 under another message id at t=0.5, the
\* first acked at t=2) 50 points are outstanding and the mean latency is 2 s.
C13_MeanLatency ==
    /\ last.op = "get_average_latencies" =>
          \A i \in 1..Len(last.hs) :
              LET nbursts == TrailingSum(counter.acked_burst_hist, Min(last.hs[i], CounterNBins))
                  latencysum == TrailingSum(counter.latency_hist, Min(last.hs[i], CounterNBins))
              IN  last.seq[i] = IF nbursts > 0 THEN <<latencysum, nbursts>> ELSE <<0, 0>>
    /\ C13_Scenario =>
          /\ get_total_outstanding_points(counter) = 1
          /\ \A i \in 1..Len(last.hs) : last.seq[i] = <<2 * Res, 1>>

\* C13 witness: the scenario, read over the longest horizon
C13_Witness ==
    /\ C13_Scenario
    /\ last.hs = <<MaxHorizon>>
    /\ last.seq = << <<2 * Res, 1>> >>

RECURSIVE SumLatencies(_)
\* ghost total of the latencies of the acks of g.acks with indices js
SumLatencies(js) ==
    IF js = {} THEN 0
    ELSE LET j == CHOOSE x \in js : TRUE
         IN  g.acks[j].latency + SumLatencies(js \ {j})

\* ghost: the matched acks that the acked-bursts window counts in its c most
\* recent tick intervals, by the clock reading of their add to that window
CountedAcks(c) ==
    {j \in 1..Len(g.acks) :
        IntervalOf(counter.acked_burst_hist, g.acks[j].at) > counter.acked_burst_hist.n_ticks - c}

\* C19 (as claimed): for every horizon, the acks whose latency is in
\* latency_hist.sum(h) are the acks counted in acked_burst_hist.sum(h), so what
\* get_average_latencies returns is the mean of the latencies of exactly the
\* acks counted in the horizon, also when the clock advances between the adds
\* of one ack or the windows' tick boundaries differ.
C19_LatencyAndCountAligned ==
    last.op = "get_average_latencies" =>
        \A i \in 1..Len(last.hs) :
            LET counted == CountedAcks(Min(last.hs[i], CounterNBins))
            IN  IF counted = {} THEN last.seq[i] = <<0, 0>>
                ELSE last.seq[i] = <<SumLatencies(counted), Cardinality(counted)>>

\* ---- claims about the event loop and the line reader ----

\* C14 (as claimed): draining the input terminates in every state of stdin:
\* when readline() has no line to give, because nothing is there for now or
\* because the stream is at end of file, process_lines_from_stream returns and
\* the tick goes on to print_throughput.
C14_DrainReturns ==
    [][ ( /\ event_loop.pc = "process_lines_from_stream"
          /\ last' # last
          /\ last'.op = "readline" /\ last'.shape \in {"nodata", "eof"} )
        => event_loop'.pc = "print_throughput"
      ]_vars

RECURSIVE RunsOf(_)
\* the handlers of j ticks, in registration order
RunsOf(j) ==
    IF j = 0 THEN <<>>
    ELSE <<"process_lines_from_stream", "print_throughput">> \o RunsOf(j - 1)

\* C15 (as claimed): when a wake-up that found j tick intervals elapsed is
\* over, the handlers have been called j times each, in registration order:
\* the whole list once per elapsed interval, nothing when j = 0.
C15_HandlersOncePerTick ==
    event_loop.pc \in {"run_forever", "raised"} => g.ran = RunsOf(g.due)

\* C20 (as claimed): process_line dispatches a record at most once: a line that
\* makes process_burst record a burst, or process_ack take an ack, is the first
\* to do so since the last header line.
C20_DispatchedAtMostOnce ==
    [][ ( /\ g'.nlines # g.nlines
          /\ last'.key \in {"burst", "ack"}
          /\ counter' # counter )
        => g.dispatched = 0
      ]_vars

====
